---- MODULE Spec2Model ----
(***************************************************************************)
(* Model of the INSAT-3D ingest Lambda: one invocation of lambda_handler   *)
(* (hello_world/app.py) or process_file (l1bconvertandupload.py), the      *)
(* metadata upload (utils/metadata_handler.py) and the concurrent band     *)
(* conversion of INSAT3DProcessor.process.                                 *)
(*                                                                         *)
(* The environment decides, at each external call, one of the outcomes the *)
(* call has in the code: the gdal tools exit zero, exit non-zero or time   *)
(* out; the S3 upload and the DynamoDB write return or raise.              *)
(*                                                                         *)
(* Spec is a whole invocation, SpecProcess the concurrent conversion of    *)
(* one processor, SpecCalls one call of _run_command, _get_subdatasets,    *)
(* _process_metadata or upload_metadata on its own.                        *)
(***************************************************************************)
EXTENDS FiniteSets, Integers, Sequences, TLC

\* ------------------------------------------------------------------ bounds
\* Largest number of subdatasets the inspection output names: one more than
\* lambda_handler's worker bound, so that a band has to wait for a worker.
MaxBands == 6
\* The same for the runs of a whole invocation, from the trigger event to the
\* response.
InvocationBands == 3
\* Longest inspection output, in lines, of a single _get_subdatasets call, and
\* the number of band names its declarations draw from.
MaxLines == 3
LineBands == 2

\* ------------------------------------------------------- program constants
\* app.py:47, max_workers=5
LambdaMaxWorkers == 5
\* l1bconvertandupload.py:205, max_workers=10
ProcessFileMaxWorkers == 10

Bands == 1..MaxBands

\* ------------------------------------------------------ python data values
\* A metadata value: t is its Python type, v its text.  "list1" is a list of
\* one string (v is that string), "list2" a longer list, "none" is None.
StrV(s) == [t |-> "str", v |-> s]
IntV(s) == [t |-> "int", v |-> s]
FloatV(s) == [t |-> "float", v |-> s]
List1V(s) == [t |-> "list1", v |-> s]
List2V(s) == [t |-> "list2", v |-> s]
NoneV == [t |-> "none", v |-> "None"]

\* str(value)
PyStr(val) ==
    CASE val.t = "list1" -> StrV("['" \o val.v \o "']")
      [] val.t = "list2" -> StrV("[" \o val.v \o "]")
      [] OTHER -> StrV(val.v)

\* bool(value): the truth value `if date_str and time_str` tests
Truthy(val) ==
    CASE val.t = "none" -> FALSE
      [] val.t = "int" -> val.v # "0"
      [] val.t = "float" -> val.v # "0.0"
      [] OTHER -> val.v # ""

\* A dict as a function on its key set.
EmptyDict == [k \in {} |-> NoneV]
\* d.update(e)
DictUpdate(d, e) == [x \in DOMAIN d \cup DOMAIN e |-> IF x \in DOMAIN e THEN e[x] ELSE d[x]]
\* d.get(k, default)
DictGet(d, k, default) == IF k \in DOMAIN d THEN d[k] ELSE default

\* ------------------------------------------------------- metadata_handler
REQUIRED_FIELDS == {"Unique_Id", "Acquisition_Date", "Acquisition_Time_in_GMT"}

\* _extract_metadata: the default-domain mapping of gdalinfo -json, or {} when
\* gdalinfo exits non-zero or its output is no JSON.
_extract_metadata(toolOK, metadata) == IF toolOK THEN metadata ELSE EmptyDict

\* lines 75-77: the required fields that are present, stringified
RequiredPart(raw) == [f \in REQUIRED_FIELDS \cap DOMAIN raw |-> PyStr(raw[f])]

\* The timestamp made when either field is there.
TimestampPartEither(raw) ==
    LET date_str == DictGet(raw, "Acquisition_Date", StrV(""))
        time_str == DictGet(raw, "Acquisition_Time_in_GMT", StrV(""))
    IN  IF Truthy(date_str) \/ Truthy(time_str)
        THEN [k \in {"acquisition_timestamp"} |->
                 StrV(PyStr(date_str).v \o "T" \o PyStr(time_str).v \o "Z")]
        ELSE EmptyDict

\* lines 80-84: the acquisition timestamp
TimestampPart(raw) ==
    LET date_str == DictGet(raw, "Acquisition_Date", StrV(""))
        time_str == DictGet(raw, "Acquisition_Time_in_GMT", StrV(""))
    IN  IF Truthy(date_str) /\ Truthy(time_str)
        THEN [k \in {"acquisition_timestamp"} |->
                 StrV(PyStr(date_str).v \o "T" \o PyStr(time_str).v \o "Z")]
        ELSE EmptyDict

\* lines 87-92: every field whose value is not None
RemainingValue(val) ==
    IF val.t \in {"list1", "list2", "float"}
    THEN (IF val.t = "list1" THEN StrV(val.v) ELSE val)
    ELSE PyStr(val)

RemainingPart(raw) ==
    [k \in {x \in DOMAIN raw : raw[x].t # "none"} |-> RemainingValue(raw[k])]

_process_metadata(raw) ==
    DictUpdate(DictUpdate(RequiredPart(raw), TimestampPart(raw)), RemainingPart(raw))

\* lines 112-113: the DynamoDB item
ToItem(processed) ==
    [k \in DOMAIN processed |->
        IF processed[k].t = "str"
        THEN [tag |-> "S", v |-> processed[k].v]
        ELSE [tag |-> "N", v |-> PyStr(processed[k]).v]]

\* The two except clauses left out: a fault of put_item leaves the method.
upload_metadata_without_except(toolOK, metadata, putOK) ==
    LET raw_metadata == _extract_metadata(toolOK, metadata)
        processed_data == _process_metadata(raw_metadata)
    IN  IF raw_metadata = EmptyDict \/ processed_data = EmptyDict \/ ~putOK
        THEN [ok |-> FALSE, put |-> <<>>, raised |-> TRUE]
        ELSE [ok |-> TRUE, put |-> <<ToItem(processed_data)>>, raised |-> FALSE]

\* upload_metadata: its return value, the items it puts (none or one) and
\* whether a fault left it.  The ValueErrors of lines 106 and 111 and the
\* fault of put_item are caught at lines 124-129.
upload_metadata(toolOK, metadata, putOK) ==
    LET raw_metadata == _extract_metadata(toolOK, metadata)
        processed_data == _process_metadata(raw_metadata)
    IN  IF raw_metadata = EmptyDict
        THEN [ok |-> FALSE, put |-> <<>>, raised |-> FALSE]
        ELSE IF processed_data = EmptyDict
        THEN [ok |-> FALSE, put |-> <<>>, raised |-> FALSE]
        ELSE IF putOK
        THEN [ok |-> TRUE, put |-> <<ToItem(processed_data)>>, raised |-> FALSE]
        ELSE [ok |-> FALSE, put |-> <<>>, raised |-> FALSE]

\* ------------------------------------------------------ l1bconvertandupload
\* line 63: def _run_command(self, command, timeout=600)
DefaultTimeout == 600

\* A run of an external command, the environment's part of _run_command, is a
\* record: found (the executable exists), hangs (the process never exits on
\* its own), runtime (the seconds it needs), exit (its exit code), stdout and
\* stderr (what it writes).

\* line 66: subprocess.run(..., timeout=timeout) kills the child and raises
\* TimeoutExpired when the child is still running after timeout seconds
Expired(run, timeout) == run.hangs \/ run.runtime > timeout

\* The TimeoutExpired handler left out: the fault leaves the invoker.
\* (the child is killed by subprocess.run all the same)
_run_command_without_timeout_handler(run, timeout) ==
    IF ~run.found
    THEN [raised |-> TRUE, success |-> FALSE, output |-> "FileNotFoundError",
          child |-> "none"]
    ELSE IF Expired(run, timeout)
    THEN [raised |-> TRUE, success |-> FALSE, output |-> "TimeoutExpired",
          child |-> "killed"]
    ELSE IF run.exit # 0
    THEN [raised |-> FALSE, success |-> FALSE, output |-> run.stderr,
          child |-> "exited"]
    ELSE [raised |-> FALSE, success |-> TRUE, output |-> run.stdout,
          child |-> "exited"]

\* lines 63-79: _run_command.  A missing executable makes subprocess.run raise
\* FileNotFoundError, which neither except clause catches.
_run_command(run, timeout) ==
    IF ~run.found
    THEN [raised |-> TRUE, success |-> FALSE, output |-> "FileNotFoundError",
          child |-> "none"]
    ELSE IF Expired(run, timeout)
    THEN [raised |-> FALSE, success |-> FALSE, output |-> "Timeout",
          child |-> "killed"]
    ELSE IF run.exit # 0
    THEN [raised |-> FALSE, success |-> FALSE, output |-> run.stderr,
          child |-> "exited"]
    ELSE [raised |-> FALSE, success |-> TRUE, output |-> run.stdout,
          child |-> "exited"]

\* One line of the inspection output, by what lines 97-100 look at: whether it
\* contains SUBDATASET and NAME, whether it contains '=', where it contains
\* '://IMG_' ("right" of the first '=', "left" of it, or "none"), and, of a
\* declaration SUBDATASET_n_NAME=HDF5:"file"://IMG_band, the file and the band.
Line(markers, eq, img, b, file) ==
    [markers |-> markers, eq |-> eq, img |-> img, band |-> b, file |-> file]

\* A subdataset declaration naming band b of a file, and of the source file
SubLineIn(b, file) == Line(TRUE, TRUE, "right", b, file)
SubLine(b) == SubLineIn(b, "input")
\* Any other line, such as "Driver: HDF5/Hierarchical Data Format Release 5"
OtherLine == Line(FALSE, FALSE, "none", 0, "")
\* Lines that pass the test of line 97 and cannot be parsed: no '=' at all,
\* or '://IMG_' only before the '='
NoEqLine == Line(TRUE, FALSE, "right", 0, "")
ImgLeftLine == Line(TRUE, TRUE, "left", 0, "")

\* line 97: 'SUBDATASET' in line and 'NAME' in line and '://IMG_' in line
Matches(line) == line.markers /\ line.img # "none"

\* lines 98-99: line.split('=')[1] and path.split('://IMG_')[1] raise
\* IndexError when the separator is missing
ParseRaises(line) == ~line.eq \/ line.img # "right"

\* line 98: the access path of a declaration line
PathOf(line) == [file |-> line.file, band |-> line.band]

\* The inspection output of a file that holds the bands 1..k.
ToolOutput(k) == <<OtherLine>> \o [i \in 1..k |-> SubLine(i)]

\* An insertion-ordered dict as a sequence of <<key, value>> with distinct keys.
Keys(d) == {d[i][1] : i \in 1..Len(d)}

\* An assignment that keeps the value a key already has.
OrderedPutFirstWins(d, k, val) ==
    IF k \in Keys(d) THEN d ELSE Append(d, <<k, val>>)

\* line 100: subdatasets[band_name] = ...
OrderedPut(d, k, val) ==
    IF k \in Keys(d)
    THEN [i \in 1..Len(d) |-> IF d[i][1] = k THEN <<k, val>> ELSE d[i]]
    ELSE Append(d, <<k, val>>)

\* What a block of code yields: a value, or a raised exception.
Returned(value) == [raised |-> FALSE, value |-> value]
Raised == [raised |-> TRUE, value |-> <<>>]

\* lines 95-100: the loop over the output's lines
RECURSIVE ParseLines(_, _)
ParseLines(lines, subdatasets) ==
    IF lines = <<>> THEN Returned(subdatasets)
    ELSE IF ~Matches(Head(lines)) THEN ParseLines(Tail(lines), subdatasets)
    ELSE IF ParseRaises(Head(lines)) THEN Raised
    ELSE ParseLines(Tail(lines),
                    OrderedPut(subdatasets, Head(lines).band, PathOf(Head(lines))))

\* No except clause: the exception leaves _get_subdatasets.
Uncaught(result) == result

\* lines 105-107: except Exception: return {}
Caught(result) == IF result.raised THEN Returned(<<>>) ELSE result

\* lines 92-103: the body of the try block after the command has returned
GetSubdatasetsBody(success, output) ==
    IF ~success THEN Returned(<<>>) ELSE ParseLines(output, <<>>)

\* _get_subdatasets, given what _run_command returned
_get_subdatasets(success, output) == Caught(GetSubdatasetsBody(success, output)).value

\* lines 81-107: _get_subdatasets, given the run of gdalinfo
GetSubdatasetsOf(run) ==
    LET c == _run_command(run, DefaultTimeout)
    IN  Caught(IF c.raised THEN Raised ELSE GetSubdatasetsBody(c.success, c.output))

\* The band's name left out of the temporary path.
TempFileShared(b) == [dir |-> "/tmp", band |-> 0, suffix |-> "_cog.tiff"]

\* line 112 and line 115
TempFile(b) == [dir |-> "/tmp", band |-> b, suffix |-> "_cog.tiff"]
S3Key(b) == [folder |-> "filename", band |-> b, suffix |-> "_cog.tiff"]
\* line 149
Location(b) == [bucket |-> "output_bucket", key |-> S3Key(b)]

\* Optional[str]: None, or one value
None == <<>>
Some(x) == <<x>>

\* Cleanup with the removal left out.
CleanupSkipped(files, temp_file) == files

\* lines 155-158: the finally block of process_band
Cleanup(files, temp_file) == IF temp_file \in files THEN files \ {temp_file} ELSE files

\* ------------------------------------------------------------------- state
VARIABLES
    entry,            \* the entry point invoked: "lambda_handler" or "process_file"
    eventOK,          \* the trigger event holds Records[0].s3.bucket.name and .object.key
    regionValid,      \* AWS_DEFAULT_REGION is one of MetadataHandler.VALID_REGIONS
    destBucketSet,    \* DESTINATION_BUCKET is set in the environment
    fileMetadata,     \* the metadata gdalinfo -json reports for the source file
    metaToolHangs,    \* gdalinfo -json on the source file never exits on its own
    pc,               \* the main thread's position
    metadata_success, \* lambda_handler's local
    metaRuns,         \* how many times upload_metadata has run
    store,            \* the items put to the DynamoDB table, in order
    subdatasets,      \* process's local: the discovered mapping
    max_workers,      \* the processor's bound
    pool,             \* the ThreadPoolExecutor: "none", "open" or "shutdown"
    queue,            \* the executor's work queue
    status,           \* per band: "idle", "queued", "converting", "uploading", "done"
    ret,              \* per band: what its process_band call returned
    files,            \* the temporary files that exist in /tmp
    incomplete,       \* those of them a failed or killed gdal_translate left half written
    objects,          \* the keys uploaded to the destination bucket
    collected,        \* the futures as_completed has yielded
    results,          \* process's local: band -> location
    response,         \* what the entry point returned
    arg,              \* a single call of one method: its arguments and the environment's part
    out               \* what that call returned

vars == <<entry, eventOK, regionValid, destBucketSet, fileMetadata, metaToolHangs, pc,
          metadata_success, metaRuns, store, subdatasets, max_workers, pool,
          queue, status, ret, files, incomplete, objects, collected, results,
          response, arg, out>>

inputs == <<entry, eventOK, regionValid, destBucketSet, fileMetadata, metaToolHangs>>
metaVars == <<metadata_success, metaRuns, store>>
poolVars == <<pool, queue, status, ret, files, incomplete, objects, collected, results>>
callVars == <<arg, out>>

\* No single call is under study.
NoCall == [fn |-> "none"]

NoResponse == [statusCode |-> 0, metadata_processed |-> FALSE, bands |-> {}, error |-> ""]
Ok200(meta, bands) == [statusCode |-> 200, metadata_processed |-> meta, bands |-> bands, error |-> ""]
Err500(msg) == [statusCode |-> 500, metadata_processed |-> FALSE, bands |-> {}, error |-> msg]

\* The metadata of the source file of an invocation: every required field,
\* one required field missing, or no metadata at all.
FullMetadata ==
    [f \in REQUIRED_FIELDS |->
        CASE f = "Unique_Id" -> StrV("3DIMG_01JAN2023_0130")
          [] f = "Acquisition_Date" -> StrV("20230101")
          [] OTHER -> StrV("0130")]
Without(d, k) == [x \in DOMAIN d \ {k} |-> d[x]]
FileMetadatas ==
    {FullMetadata, EmptyDict} \cup {Without(FullMetadata, f) : f \in REQUIRED_FIELDS}

Running == {b \in Bands : status[b] \in {"converting", "uploading"}}

\* Nothing discovered, no executor, no band touched.
InitProcessor ==
    /\ subdatasets = <<>>
    /\ pool = "none"
    /\ queue = <<>>
    /\ status = [b \in Bands |-> "idle"]
    /\ ret = [b \in Bands |-> None]
    /\ files = {}
    /\ incomplete = {}
    /\ objects = {}
    /\ collected = {}
    /\ results = [b \in {} |-> Location(b)]
    /\ response = NoResponse

\* An invocation of either entry point, before its first statement.
Init ==
    /\ entry \in {"lambda_handler", "process_file"}
    /\ eventOK \in BOOLEAN
    /\ regionValid \in BOOLEAN
    /\ destBucketSet \in BOOLEAN
    /\ fileMetadata \in FileMetadatas
    /\ metaToolHangs \in BOOLEAN
    /\ arg = NoCall
    /\ out = NoCall
    /\ pc = "start"
    /\ metadata_success = FALSE
    /\ metaRuns = 0
    /\ store = <<>>
    /\ max_workers = 0
    /\ InitProcessor

\* The processor as lambda_handler has just constructed it (app.py line 48),
\* after its own metadata upload (line 40) has written the file's record.
InitProcess ==
    /\ entry = "lambda_handler"
    /\ eventOK = TRUE
    /\ regionValid = TRUE
    /\ destBucketSet = TRUE
    /\ fileMetadata = FullMetadata
    /\ metaToolHangs = FALSE
    /\ arg = NoCall
    /\ out = NoCall
    /\ pc = "proc_metadata"
    /\ metadata_success = upload_metadata(TRUE, fileMetadata, TRUE).ok
    /\ store = upload_metadata(TRUE, fileMetadata, TRUE).put
    /\ metaRuns = 1
    /\ max_workers = LambdaMaxWorkers
    /\ InitProcessor

\* No except clause: the fault leaves the entry point.
FailPropagates(msg) ==
    /\ pc' = "raised"
    /\ UNCHANGED response

\* The except clause of the entry point: the fault becomes the response, whose
\* error is str(e).
Fail(msg) ==
    /\ pc' = "done"
    /\ response' = Err500(msg)

\* ------------------------------------------------------------ entry points
\* app.py lines 27-37: the region, the MetadataHandler, the event's bucket and key
lambda_handler_setup ==
    /\ pc = "start"
    /\ entry = "lambda_handler"
    /\ IF ~regionValid THEN Fail("Invalid region. Must be one of ['ap-south-1', 'us-east-1', 'us-west-2']")
       ELSE IF ~eventOK THEN Fail("'Records'")
       ELSE pc' = "app_metadata" /\ UNCHANGED response
    /\ UNCHANGED <<inputs, callVars, metaVars, subdatasets, max_workers, poolVars>>

\* A failed metadata upload raises to the handler's except clause.
lambda_handler_metadata_raising ==
    /\ pc = "app_metadata"
    /\ ~metaToolHangs
    /\ \E toolOK \in BOOLEAN, putOK \in BOOLEAN :
         LET r == upload_metadata(toolOK, fileMetadata, putOK)
         IN  /\ metadata_success' = r.ok
             /\ store' = store \o r.put
             /\ IF r.ok THEN pc' = "construct" /\ UNCHANGED response
                ELSE Fail("Failed to upload metadata")
    /\ metaRuns' = metaRuns + 1
    /\ UNCHANGED <<inputs, callVars, subdatasets, max_workers, poolVars>>

\* app.py line 40: metadata_success = metadata_handler.upload_metadata(file_path).
\* _extract_metadata runs gdalinfo with no timeout (metadata_handler.py line
\* 41), so the call returns only once gdalinfo has exited.
lambda_handler_metadata ==
    /\ pc = "app_metadata"
    /\ ~metaToolHangs
    /\ \E toolOK \in BOOLEAN, putOK \in BOOLEAN :
         LET r == upload_metadata(toolOK, fileMetadata, putOK)
         IN  /\ metadata_success' = r.ok
             /\ store' = store \o r.put
    /\ metaRuns' = metaRuns + 1
    /\ pc' = "construct"
    /\ UNCHANGED <<inputs, callVars, subdatasets, max_workers, poolVars, response>>

\* app.py lines 43-48: INSAT3DProcessor(..., max_workers=5)
lambda_handler_construct ==
    /\ pc = "construct"
    /\ entry = "lambda_handler"
    /\ max_workers' = LambdaMaxWorkers
    /\ pc' = "proc_metadata"
    /\ UNCHANGED <<inputs, callVars, metaVars, subdatasets, poolVars, response>>

\* l1bconvertandupload.py lines 195-200: the event's bucket and key, DESTINATION_BUCKET
process_file_setup ==
    /\ pc = "start"
    /\ entry = "process_file"
    /\ IF ~eventOK THEN Fail("'Records'")
       ELSE IF ~destBucketSet THEN Fail("'DESTINATION_BUCKET'")
       ELSE pc' = "construct" /\ UNCHANGED response
    /\ UNCHANGED <<inputs, callVars, metaVars, subdatasets, max_workers, poolVars>>

\* lines 202-206: INSAT3DProcessor(..., max_workers=10); its MetadataHandler
\* rejects an invalid region (line 43)
process_file_construct ==
    /\ pc = "construct"
    /\ entry = "process_file"
    /\ IF ~regionValid
       THEN Fail("Invalid region. Must be one of ['ap-south-1', 'us-east-1', 'us-west-2']") /\ UNCHANGED max_workers
       ELSE /\ max_workers' = ProcessFileMaxWorkers
            /\ pc' = "proc_metadata"
            /\ UNCHANGED response
    /\ UNCHANGED <<inputs, callVars, metaVars, subdatasets, poolVars>>

\* ------------------------------------------------- INSAT3DProcessor.process
\* line 167: self.metadata_handler.upload_metadata(self.input_path), result dropped
process_metadata ==
    /\ pc = "proc_metadata"
    /\ ~metaToolHangs
    /\ \E toolOK \in BOOLEAN, putOK \in BOOLEAN :
         store' = store \o upload_metadata(toolOK, fileMetadata, putOK).put
    /\ metaRuns' = metaRuns + 1
    /\ pc' = "discover"
    /\ UNCHANGED <<inputs, callVars, metadata_success, subdatasets, max_workers, poolVars, response>>

\* The early return left out.
NeverNothingToProcess(found) == FALSE

\* line 171: if not subdatasets
NothingToProcess(found) == found = <<>>

\* lines 170-174: the discovery, the early return, the executor
process_discover(limit) ==
    /\ pc = "discover"
    /\ \E success \in BOOLEAN, k \in 0..limit :
         subdatasets' = _get_subdatasets(success, ToolOutput(k))
    /\ IF NothingToProcess(subdatasets')
       THEN pc' = "returned" /\ UNCHANGED pool
       ELSE pc' = "submit" /\ pool' = "open"
    /\ UNCHANGED <<inputs, callVars, metaVars, max_workers, queue, status, ret, files, incomplete,
                   objects, collected, results, response>>

\* lines 175-178: executor.submit(self.process_band, (band, path)), one entry
\* of subdatasets after the other
process_submit ==
    /\ pc = "submit"
    /\ LET n == Cardinality({b \in Bands : status[b] # "idle"}) + 1
           band == subdatasets[n][1]
       IN  /\ status' = [status EXCEPT ![band] = "queued"]
           /\ queue' = Append(queue, band)
           /\ pc' = IF n = Len(subdatasets) THEN "collect" ELSE "submit"
    /\ UNCHANGED <<inputs, callVars, metaVars, subdatasets, max_workers, pool, ret, files, incomplete,
                   objects, collected, results, response>>

\* An executor with no bound.
WorkerAlwaysAvailable == TRUE

\* line 174: ThreadPoolExecutor(max_workers=...) runs a queued call only while
\* fewer than max_workers calls are running
WorkerAvailable == Cardinality(Running) < max_workers

\* A worker takes the oldest queued call (the executor's queue is first in,
\* first out): process_band lines 111-136, up to the start of gdal_translate.
worker_start ==
    /\ pool = "open"
    /\ queue # <<>>
    /\ WorkerAvailable
    /\ status' = [status EXCEPT ![Head(queue)] = "converting"]
    /\ queue' = Tail(queue)
    /\ UNCHANGED <<inputs, callVars, pc, metaVars, subdatasets, max_workers, pool, ret, files, incomplete,
                   objects, collected, results, response>>

\* The result of the conversion ignored: the upload follows in any case.
ConversionFailedIgnored(outcome) == FALSE

\* lines 136-137: success, _ = self._run_command(translate_cmd); if not success
ConversionFailed(outcome) == outcome # "ok"

\* process_band lines 136-138 and 155-158: gdal_translate ends.  Exit zero
\* leaves the COG in temp_file; a non-zero exit or a timeout may leave a partial
\* temp_file, and the band returns None through the finally block.
band_converted(b) ==
    /\ status[b] = "converting"
    /\ \E outcome \in {"ok", "failed", "timeout"}, partial \in BOOLEAN :
         LET written == outcome = "ok" \/ partial
             onDisk == IF written THEN files \cup {TempFile(b)} ELSE files
             half == IF written /\ outcome # "ok"
                     THEN incomplete \cup {TempFile(b)} ELSE incomplete
         IN  IF ConversionFailed(outcome)
             THEN /\ files' = Cleanup(onDisk, TempFile(b))
                  /\ incomplete' = Cleanup(half, TempFile(b))
                  /\ status' = [status EXCEPT ![b] = "done"]
                  /\ ret' = [ret EXCEPT ![b] = None]
             ELSE /\ files' = onDisk
                  /\ incomplete' = half
                  /\ status' = [status EXCEPT ![b] = "uploading"]
                  /\ UNCHANGED ret
    /\ UNCHANGED <<inputs, callVars, pc, metaVars, subdatasets, max_workers, pool, queue,
                   objects, collected, results, response>>

\* process_band lines 141-158: upload_file returns, or raises (it cannot
\* return without the local file); the finally block removes temp_file and the
\* band returns its location or None.
band_uploaded(b) ==
    /\ status[b] = "uploading"
    /\ \E uploaded \in {u \in BOOLEAN : u => TempFile(b) \in files} :
         /\ objects' = IF uploaded THEN objects \cup {S3Key(b)} ELSE objects
         /\ ret' = [ret EXCEPT ![b] = IF uploaded THEN Some(Location(b)) ELSE None]
    /\ files' = Cleanup(files, TempFile(b))
    /\ incomplete' = Cleanup(incomplete, TempFile(b))
    /\ status' = [status EXCEPT ![b] = "done"]
    /\ UNCHANGED <<inputs, callVars, pc, metaVars, subdatasets, max_workers, pool, queue,
                   collected, results, response>>

\* A failed band empties the mapping.
CollectedOrWiped(res, band, result) ==
    IF result # None
    THEN [b \in DOMAIN res \cup {band} |-> IF b = band THEN result[1] ELSE res[b]]
    ELSE [b \in {} |-> Location(b)]

\* A band is entered whatever its converter returned.
CollectedAlways(res, band, result) ==
    [b \in DOMAIN res \cup {band} |-> IF b = band THEN Location(band) ELSE res[b]]

\* lines 183-184: if result := future.result(): results[band] = result
Collected(res, band, result) ==
    IF result # None
    THEN [b \in DOMAIN res \cup {band} |-> IF b = band THEN result[1] ELSE res[b]]
    ELSE res

\* lines 180-186: as_completed yields a finished future.  process_band
\* catches every Exception (line 151) and returns None, so future.result()
\* returns for each outcome of the tool and of the upload; the except clause
\* of lines 185-186 has nothing to catch.
process_collect(b) ==
    /\ pc = "collect"
    /\ status[b] = "done"
    /\ b \notin collected
    /\ collected' = collected \cup {b}
    /\ results' = Collected(results, b, ret[b])
    /\ UNCHANGED <<inputs, callVars, pc, metaVars, subdatasets, max_workers, pool, queue,
                   status, ret, files, incomplete, objects, response>>

\* The loop ends at the first band that failed.
AllCollectedOrOneFailed ==
    \/ Keys(subdatasets) \subseteq collected
    \/ \E b \in collected : ret[b] = None

\* as_completed has yielded every future it was given
AllCollected == Keys(subdatasets) \subseteq collected

\* lines 186-189: the loop ends, the with block shuts the executor down,
\* process returns results
process_return ==
    /\ pc = "collect"
    /\ AllCollected
    /\ pool' = "shutdown"
    /\ pc' = "returned"
    /\ UNCHANGED <<inputs, callVars, metaVars, subdatasets, max_workers, queue, status, ret,
                   files, incomplete, objects, collected, results, response>>

\* app.py lines 52-58
lambda_handler_respond ==
    /\ pc = "returned"
    /\ entry = "lambda_handler"
    /\ response' = Ok200(metadata_success, DOMAIN results)
    /\ pc' = "done"
    /\ UNCHANGED <<inputs, callVars, metaVars, subdatasets, max_workers, poolVars>>

\* l1bconvertandupload.py lines 210-228
process_file_respond ==
    /\ pc = "returned"
    /\ entry = "process_file"
    /\ IF DOMAIN results = {}
       THEN Fail("No output files generated")
       ELSE response' = Ok200(FALSE, DOMAIN results) /\ pc' = "done"
    /\ UNCHANGED <<inputs, callVars, metaVars, subdatasets, max_workers, poolVars>>

Next ==
    \/ lambda_handler_setup
    \/ lambda_handler_metadata
    \/ lambda_handler_construct
    \/ process_file_setup
    \/ process_file_construct
    \/ process_metadata
    \/ process_discover(InvocationBands)
    \/ process_submit
    \/ worker_start
    \/ \E b \in Bands : band_converted(b)
    \/ \E b \in Bands : band_uploaded(b)
    \/ \E b \in Bands : process_collect(b)
    \/ process_return
    \/ lambda_handler_respond
    \/ process_file_respond

Spec == Init /\ [][Next]_vars

\* INSAT3DProcessor.process on the processor lambda_handler constructed, up to
\* lambda_handler's response.
NextProcess ==
    \/ process_metadata
    \/ process_discover(MaxBands)
    \/ process_submit
    \/ worker_start
    \/ \E b \in Bands : band_converted(b)
    \/ \E b \in Bands : band_uploaded(b)
    \/ \E b \in Bands : process_collect(b)
    \/ process_return
    \/ lambda_handler_respond

SpecProcess == InitProcess /\ [][NextProcess]_vars

\* ------------------------------------------------------------ single calls
\* One method called once on a constructed object, with nothing else running:
\* arg holds the call's arguments and what the environment does during it.
InitObject ==
    /\ entry = "lambda_handler"
    /\ eventOK = TRUE
    /\ regionValid = TRUE
    /\ destBucketSet = TRUE
    /\ fileMetadata = EmptyDict
    /\ metaToolHangs = FALSE
    /\ pc = "call"
    /\ metadata_success = FALSE
    /\ metaRuns = 0
    /\ store = <<>>
    /\ max_workers = LambdaMaxWorkers
    /\ InitProcessor
    /\ out = NoCall

\* The runs of a command: it needs less or more than the timeout, or hangs.
Runtimes == {0, DefaultTimeout - 1, DefaultTimeout + 1}
ExitCodes == {0, 1}
CommandRuns(stdouts) ==
    [found : BOOLEAN, hangs : BOOLEAN, runtime : Runtimes, exit : ExitCodes,
     stdout : stdouts,
     stderr : {"", "ERROR 4: not recognized as a supported file format"}]

RunCommandCalls ==
    [fn : {"_run_command"},
     run : CommandRuns({"", "Driver: HDF5/Hierarchical Data Format Release 5",
                        "Size is 11264, 11220"})]

\* self._run_command(cmd), with the default timeout
call_run_command ==
    /\ arg.fn = "_run_command"
    /\ out = NoCall
    /\ out' = [fn |-> arg.fn, r |-> _run_command(arg.run, DefaultTimeout)]
    /\ UNCHANGED <<inputs, pc, metaVars, subdatasets, max_workers, poolVars, response, arg>>

\* The raw metadata gdalinfo -json may report: any of the required fields and
\* one more, each with a value of any JSON kind.
MetadataFields == REQUIRED_FIELDS \cup {"Sensor_Name"}
MetadataValues ==
    {StrV("20230101"), StrV("0130"), StrV(""), IntV("20230101"), FloatV("1.5"),
     List1V("0130"), List2V("'20230101', '0130'"), NoneV}
RawMetadatas ==
    UNION {[fields -> MetadataValues] : fields \in SUBSET MetadataFields}

UploadMetadataCalls ==
    [fn : {"upload_metadata"}, metadata : RawMetadatas, toolOK : BOOLEAN,
     putOK : BOOLEAN]

\* metadata_handler.upload_metadata(h5_file_path)
call_upload_metadata ==
    /\ arg.fn = "upload_metadata"
    /\ out = NoCall
    /\ LET r == upload_metadata(arg.toolOK, arg.metadata, arg.putOK)
       IN  /\ out' = [fn |-> arg.fn, r |-> r]
           /\ store' = store \o r.put
           /\ metadata_success' = r.ok
    /\ metaRuns' = metaRuns + 1
    /\ UNCHANGED <<inputs, pc, subdatasets, max_workers, poolVars, response, arg>>

\* The inspection outputs: up to MaxLines lines, each a declaration of one of
\* LineBands bands in one of two files, another line, or an unparsable one.
Lines ==
    {SubLineIn(b, file) : b \in 1..LineBands, file \in {"input", "other"}}
        \cup {OtherLine, NoEqLine, ImgLeftLine}
Outputs == UNION {[1..n -> Lines] : n \in 0..MaxLines}

GetSubdatasetsCalls == [fn : {"_get_subdatasets"}, run : CommandRuns(Outputs)]

\* self._get_subdatasets()
call_get_subdatasets ==
    /\ arg.fn = "_get_subdatasets"
    /\ out = NoCall
    /\ LET r == GetSubdatasetsOf(arg.run)
       IN  /\ out' = [fn |-> arg.fn, r |-> r]
           /\ subdatasets' = r.value
    /\ UNCHANGED <<inputs, pc, metaVars, max_workers, poolVars, response, arg>>

ProcessMetadataCalls == [fn : {"_process_metadata"}, raw : RawMetadatas]

\* self._process_metadata(raw_metadata), and the item lines 112-113 make of it
call_process_metadata ==
    /\ arg.fn = "_process_metadata"
    /\ out = NoCall
    /\ LET processed == _process_metadata(arg.raw)
       IN  out' = [fn |-> arg.fn, r |-> processed, item |-> ToItem(processed)]
    /\ UNCHANGED <<inputs, pc, metaVars, subdatasets, max_workers, poolVars, response, arg>>

InitCalls ==
    /\ InitObject
    /\ \/ arg \in RunCommandCalls
       \/ arg \in UploadMetadataCalls
       \/ arg \in GetSubdatasetsCalls
       \/ arg \in ProcessMetadataCalls

NextCalls ==
    \/ call_run_command
    \/ call_upload_metadata
    \/ call_get_subdatasets
    \/ call_process_metadata

SpecCalls == InitCalls /\ [][NextCalls]_vars

\* ------------------------------------------------------------------ claims
Discovered == Keys(subdatasets)
Uploaded == {b \in Bands : S3Key(b) \in objects}
Failed == {b \in Discovered : status[b] = "done" /\ ret[b] = None}
ProcessReturned == pc = "returned"

\* C1. Isolation: the entry of a band Y in the mapping depends on Y's own
\* conversion and upload alone.  Once Y's future is collected, and so when
\* process returns, Y is in the mapping exactly when Y's own artifact was
\* converted and uploaded, with Y's own location, whatever the other bands did.
C1_Isolation ==
    /\ \A Y \in collected :
         /\ Y \in DOMAIN results <=> Y \in Uploaded
         /\ Y \in DOMAIN results => results[Y] = Location(Y)
    /\ ProcessReturned =>
         \A Y \in Discovered : Y \in DOMAIN results <=> Y \in Uploaded

\* process has returned, a band X failed and another band Y is in the mapping.
C1_Witness ==
    /\ ProcessReturned
    /\ \E X \in Failed, Y \in DOMAIN results : X # Y

\* C2. Bounded concurrency: at most max_workers process_band calls run at the
\* same time.
C2_BoundedConcurrency == Cardinality(Running) <= max_workers

\* max_workers bands are running and another one waits in the queue.
C2_Witness ==
    /\ Cardinality(Running) = max_workers
    /\ max_workers > 0
    /\ queue # <<>>

\* C3. Wait-for-all: when process has returned, every submitted band has
\* completed and has been collected; none is queued or running.
C3_WaitForAll ==
    ProcessReturned =>
        /\ queue = <<>>
        /\ Running = {}
        /\ \A b \in Discovered : status[b] = "done" /\ b \in collected
        /\ \A b \in Bands \ Discovered : status[b] = "idle"

\* process has returned from more bands than workers, one of which failed.
C3_Witness ==
    /\ ProcessReturned
    /\ Cardinality(Discovered) > max_workers
    /\ Failed # {}

\* C4. Result set: when process returns, the keys of the mapping are the
\* discovered bands whose converter returned a location, each with that
\* location; of B bands of which F failed, B - F are in it.
C4_ResultSet ==
    ProcessReturned =>
        /\ DOMAIN results = {b \in Discovered : ret[b] # None}
        /\ \A b \in DOMAIN results : ret[b] = Some(results[b])
        /\ Cardinality(DOMAIN results) = Cardinality(Discovered) - Cardinality(Failed)

\* process has returned from six bands of which three failed, with three entries.
C4_Witness ==
    /\ ProcessReturned
    /\ Cardinality(Discovered) = 6
    /\ Cardinality(Failed) = 3
    /\ Cardinality(DOMAIN results) = 3

\* C5. Hard-failure rule, as claimed for both entry points: the response is
\* 500 when no band was converted and uploaded, 200 when at least one was.
C5_HardFailureRule ==
    (pc = "done" /\ eventOK /\ regionValid /\ destBucketSet) =>
        IF Uploaded = {} THEN response.statusCode = 500
        ELSE response.statusCode = 200

\* C6. Metadata runs once, as claimed: within an invocation of lambda_handler
\* upload_metadata runs at most once, writes at most one record, and has run
\* once by the time the subdatasets are discovered.
C6_MetadataRunsOnce ==
    entry = "lambda_handler" =>
        /\ metaRuns <= 1
        /\ Len(store) <= 1
        /\ pc \in {"submit", "collect", "returned"} => metaRuns = 1

\* C7. Required-field fail-closed, as claimed: every record written to the
\* store holds every required field.
C7_RequiredFieldsFailClosed ==
    \A i \in 1..Len(store) : REQUIRED_FIELDS \subseteq DOMAIN store[i]

\* C8. Cleanup: once a band's process_band has returned its temporary file
\* does not exist, and no temporary file exists once process has returned.
C8_Cleanup ==
    /\ \A b \in Bands : status[b] = "done" => TempFile(b) \notin files
    /\ ProcessReturned => files = {}

\* process has returned after one band was uploaded and another one failed.
C8_Witness ==
    /\ ProcessReturned
    /\ Uploaded # {}
    /\ Failed # {}
    /\ files = {}

\* C9. A metadata failure does not block the bands: in lambda_handler the step
\* after each metadata upload is the next statement whatever the upload
\* returned, the failure shows only as the flag of the response, and the bands
\* of the response are the bands that were converted and uploaded.
C9_MetadataDoesNotBlock ==
    /\ [](entry = "lambda_handler" /\ pc = "done" /\ eventOK /\ regionValid =>
            /\ response.statusCode = 200
            /\ response.metadata_processed = metadata_success
            /\ response.bands = Uploaded)
    /\ [][/\ pc = "app_metadata" => pc' = "construct"
          /\ pc = "proc_metadata" => pc' = "discover"]_vars

\* lambda_handler has answered with bands although both metadata uploads failed.
C9_Witness ==
    /\ entry = "lambda_handler"
    /\ pc = "done"
    /\ metaRuns = 2
    /\ ~metadata_success
    /\ store = <<>>
    /\ response.statusCode = 200
    /\ response.bands # {}

\* C10. Empty discovery: after a discovery that found nothing, no executor
\* exists, no band is queued, converted or uploaded, and the mapping is empty.
C10_EmptyDiscovery ==
    (pc \in {"submit", "collect", "returned"} /\ subdatasets = <<>>) =>
        /\ pc = "returned"
        /\ pool = "none"
        /\ queue = <<>>
        /\ \A b \in Bands : status[b] = "idle"
        /\ files = {}
        /\ objects = {}
        /\ DOMAIN results = {}

\* process has returned from an empty discovery.
C10_Witness ==
    /\ ProcessReturned
    /\ subdatasets = <<>>
    /\ pool = "none"
    /\ DOMAIN results = {}

\* C11: when the executable starts, _run_command raises nothing: exit code
\* zero within the timeout returns (True, stdout), a non-zero exit within the
\* timeout returns (False, stderr), and a process still running at the timeout
\* is killed and (False, "Timeout") is returned.
C11_RunCommandOutcomes ==
    (out # NoCall /\ out.fn = "_run_command" /\ arg.run.found) =>
        LET run == arg.run
            inTime == ~run.hangs /\ run.runtime <= DefaultTimeout
        IN  /\ ~out.r.raised
            /\ (inTime /\ run.exit = 0) =>
                   (out.r.success /\ out.r.output = run.stdout)
            /\ (inTime /\ run.exit # 0) =>
                   (~out.r.success /\ out.r.output = run.stderr)
            /\ ~inTime =>
                   (~out.r.success /\ out.r.output = "Timeout"
                    /\ out.r.child = "killed")

\* A command that never exits on its own has returned (False, "Timeout").
C11_Witness ==
    /\ out # NoCall
    /\ out.fn = "_run_command"
    /\ arg.run.found
    /\ arg.run.hangs
    /\ out.r = [raised |-> FALSE, success |-> FALSE, output |-> "Timeout",
                child |-> "killed"]

\* C12: lambda_handler ends only by returning a response with status 200 or
\* 500, never by a fault that leaves it; once the region is invalid or the
\* event is malformed, the first statements have raised and the response is
\* 500 with the error's message.
C12_TopLevelBoundary ==
    entry = "lambda_handler" =>
        /\ pc # "raised"
        /\ pc = "done" <=> response # NoResponse
        /\ pc = "done" =>
               \/ response.statusCode = 200 /\ response.error = ""
               \/ response.statusCode = 500 /\ response.error # ""
        /\ (pc # "start" /\ (~regionValid \/ ~eventOK)) =>
               /\ pc = "done"
               /\ response.statusCode = 500
               /\ response.error # ""
               /\ store = <<>>

\* A trigger event without Records has been answered with 500 and str(KeyError).
C12_Witness ==
    /\ entry = "lambda_handler"
    /\ regionValid
    /\ ~eventOK
    /\ pc = "done"
    /\ response = Err500("'Records'")

\* C13: upload_metadata raises nothing; it returns True only if it wrote
\* exactly one record, the item of the processed fields; when the extraction
\* or the processing yields no field it writes nothing and returns False; a
\* fault of the write is reported as False.
C13_MetadataWrite ==
    (out # NoCall /\ out.fn = "upload_metadata") =>
        LET raw == IF arg.toolOK THEN arg.metadata ELSE EmptyDict
            processed == _process_metadata(raw)
        IN  /\ ~out.r.raised
            /\ out.r.ok = metadata_success
            /\ out.r.ok => store = <<ToItem(processed)>>
            /\ ~out.r.ok => store = <<>>
            /\ (raw = EmptyDict \/ processed = EmptyDict) => ~out.r.ok
            /\ ~arg.putOK => ~out.r.ok

\* The write of a complete record has faulted, and the call returned False.
C13_Witness ==
    /\ out # NoCall
    /\ out.fn = "upload_metadata"
    /\ arg.toolOK
    /\ arg.metadata = [f \in REQUIRED_FIELDS |-> StrV("20230101")]
    /\ ~arg.putOK
    /\ out.r = [ok |-> FALSE, put |-> <<>>, raised |-> FALSE]
    /\ store = <<>>

\* C14: a band's upload is attempted only once its conversion has succeeded
\* and left the complete image in its temp file; a conversion that fails or
\* times out ends the band with None and no upload; an upload that faults ends
\* the band with None; a band returns a location only for an uploaded object.
C14_ConvertThenUpload ==
    /\ [](\A b \in Bands :
            /\ status[b] = "uploading" =>
                   (TempFile(b) \in files /\ TempFile(b) \notin incomplete)
            /\ S3Key(b) \in objects => status[b] = "done"
            /\ ret[b] # None => (status[b] = "done" /\ S3Key(b) \in objects))
    /\ [][\A b \in Bands :
            /\ (status'[b] = "uploading" /\ status[b] # "uploading") =>
                   status[b] = "converting"
            /\ (S3Key(b) \in objects' /\ S3Key(b) \notin objects) =>
                   (status[b] = "uploading" /\ ret'[b] = Some(Location(b)))
            /\ (status[b] = "converting" /\ status'[b] = "done") =>
                   (ret'[b] = None /\ objects' = objects)
            /\ (status[b] = "uploading" /\ status'[b] = "done"
                    /\ S3Key(b) \notin objects') =>
                   ret'[b] = None]_vars

\* One band was converted and uploaded; another ended with None and nothing
\* uploaded.
C14_Witness ==
    \E b \in Bands, c \in Bands :
        /\ status[b] = "done"
        /\ ret[b] = Some(Location(b))
        /\ S3Key(b) \in objects
        /\ status[c] = "done"
        /\ ret[c] = None
        /\ S3Key(c) \notin objects

\* C15: the bands of one run have pairwise different temp files and
\* destination keys; every band being uploaded still has its own temp file,
\* every band that returned a location has its own object, and the result
\* mapping holds, under each collected band's own name, that band's location.
C15_Partitioning ==
    /\ \A b \in Discovered, c \in Discovered :
           b # c => (TempFile(b) # TempFile(c) /\ S3Key(b) # S3Key(c))
    /\ \A b \in Bands : status[b] = "uploading" => TempFile(b) \in files
    /\ Cardinality(files) = Cardinality({b \in Bands : status[b] = "uploading"})
    /\ Cardinality(objects) = Cardinality({b \in Bands : ret[b] # None})
    /\ \A b \in Bands : ret[b] # None => S3Key(b) \in objects
    /\ DOMAIN results \subseteq collected
    /\ \A b \in DOMAIN results : ret[b] = Some(results[b]) /\ results[b].key = S3Key(b)

\* Two bands are being uploaded at the same time, each from its own temp
\* file, while a third has its object in the bucket and its entry in results.
C15_Witness ==
    \E b \in Bands, c \in Bands, d \in Bands :
        /\ b # c
        /\ status[b] = "uploading"
        /\ status[c] = "uploading"
        /\ {TempFile(b), TempFile(c)} \subseteq files
        /\ S3Key(d) \in objects
        /\ d \in DOMAIN results

\* The lines of an output that pass the test of line 97.
MatchingLines(output) == {i \in 1..Len(output) : Matches(output[i])}

\* gdalinfo ran to exit code zero within the timeout.
CommandSucceeded(run) ==
    run.found /\ ~run.hangs /\ run.runtime <= DefaultTimeout /\ run.exit = 0

\* C16: _get_subdatasets raises nothing, and returns the empty mapping when the
\* inspection command does not succeed, when no line of its output matches,
\* and when a matching line has no '=' or no '://IMG_' after it.
C16_DiscoveryNeverFaults ==
    (out # NoCall /\ out.fn = "_get_subdatasets") =>
        LET run == arg.run
        IN  /\ ~out.r.raised
            /\ subdatasets = out.r.value
            /\ ~CommandSucceeded(run) => subdatasets = <<>>
            /\ (CommandSucceeded(run) /\ MatchingLines(run.stdout) = {}) =>
                   subdatasets = <<>>
            /\ (CommandSucceeded(run) /\ \E i \in MatchingLines(run.stdout) :
                                            ~run.stdout[i].eq \/ run.stdout[i].img = "left") =>
                   subdatasets = <<>>

\* A declaration was followed by a matching line without '=': nothing raised,
\* the mapping is empty.
C16_Witness ==
    /\ out # NoCall
    /\ out.fn = "_get_subdatasets"
    /\ CommandSucceeded(arg.run)
    /\ arg.run.stdout = <<SubLine(1), NoEqLine>>
    /\ out.r = Returned(<<>>)

\* C17: when the command succeeded and every matching line is a declaration,
\* the mapping has exactly one entry per band named by a matching line, whose
\* value is the access path of the last matching line naming that band, and
\* the other lines add nothing; declarations of IMG_1 and IMG_2 give exactly
\* the keys 1 and 2.
C17_DiscoveryMapping ==
    (out # NoCall /\ out.fn = "_get_subdatasets" /\ CommandSucceeded(arg.run)
        /\ \A i \in MatchingLines(arg.run.stdout) :
               arg.run.stdout[i].eq /\ arg.run.stdout[i].img = "right") =>
        LET output == arg.run.stdout
            named == {output[i].band : i \in MatchingLines(output)}
            last(k) == CHOOSE i \in MatchingLines(output) :
                          /\ output[i].band = k
                          /\ \A j \in MatchingLines(output) :
                                 output[j].band = k => j <= i
        IN  /\ Keys(subdatasets) = named
            /\ Len(subdatasets) = Cardinality(named)
            /\ \A n \in 1..Len(subdatasets) :
                   subdatasets[n][2] =
                       [file |-> output[last(subdatasets[n][1])].file,
                        band |-> subdatasets[n][1]]
            /\ output = <<SubLine(1), SubLine(2)>> => Keys(subdatasets) = {1, 2}

\* Band 1 was declared twice, in two files, around another line: the one
\* entry holds the path of the second declaration.
C17_Witness ==
    /\ out # NoCall
    /\ out.fn = "_get_subdatasets"
    /\ CommandSucceeded(arg.run)
    /\ arg.run.stdout = <<SubLineIn(1, "input"), OtherLine, SubLineIn(1, "other")>>
    /\ subdatasets = <<<<1, [file |-> "other", band |-> 1]>>>>

\* C18: every required field present in the raw metadata is in the output of
\* _process_metadata as a string, whatever the kind of its raw value, and is
\* tagged S in the item.
C18_RequiredFieldsStringified ==
    (out # NoCall /\ out.fn = "_process_metadata") =>
        \A f \in REQUIRED_FIELDS \cap DOMAIN arg.raw :
            /\ f \in DOMAIN out.r
            /\ out.r[f].t = "str"
            /\ out.item[f].tag = "S"

\* A field of the raw metadata is there and not empty: not None, not "".
NonEmpty(raw, f) == f \in DOMAIN raw /\ raw[f] # NoneV /\ raw[f].v # ""

\* C19: the output of _process_metadata holds acquisition_timestamp, made of
\* the text of the date field, T, the text of the time field and Z, exactly
\* when Acquisition_Date and Acquisition_Time_in_GMT are both there and not
\* empty; 20230101 and 0130 give 20230101T0130Z.
C19_AcquisitionTimestamp ==
    (out # NoCall /\ out.fn = "_process_metadata") =>
        LET raw == arg.raw
            both == NonEmpty(raw, "Acquisition_Date")
                        /\ NonEmpty(raw, "Acquisition_Time_in_GMT")
        IN  /\ both <=> "acquisition_timestamp" \in DOMAIN out.r
            /\ both =>
                   out.r["acquisition_timestamp"] =
                       StrV(PyStr(raw["Acquisition_Date"]).v \o "T"
                            \o PyStr(raw["Acquisition_Time_in_GMT"]).v \o "Z")
            /\ (both /\ raw["Acquisition_Date"] = StrV("20230101")
                    /\ raw["Acquisition_Time_in_GMT"] = StrV("0130")) =>
                   out.r["acquisition_timestamp"] = StrV("20230101T0130Z")

\* The date 20230101 and the time 0130 have given 20230101T0130Z.
C19_Witness ==
    /\ out # NoCall
    /\ out.fn = "_process_metadata"
    /\ arg.raw = [f \in {"Acquisition_Date", "Acquisition_Time_in_GMT"} |->
                     IF f = "Acquisition_Date" THEN StrV("20230101") ELSE StrV("0130")]
    /\ out.r["acquisition_timestamp"] = StrV("20230101T0130Z")

\* C20: an invocation of lambda_handler that has not yet returned its response
\* can always take its next step, whichever tool process never exits on its
\* own: it is never left waiting for good.
C20_NeverStuck ==
    (entry = "lambda_handler" /\ pc # "done") => ENABLED Next

====
